---- MODULE Spec2Model ----
(***************************************************************************)
(* Model of vsketch/display.py: the display() dispatcher and its two       *)
(* renderers, display_matplotlib() (raster, drawing on the pyplot canvas)  *)
(* and display_ipython() (vector, an SVG handed to IPython).               *)
(*                                                                         *)
(* Conventions.  An optional value (None or a value) is a sequence of      *)
(* length 0 or 1.  Lengths that the code halves are kept exactly: an       *)
(* offset is stored in half units (twice its value), and a transformed     *)
(* coordinate is the fraction num/den.  A palette channel is stored in     *)
(* hundredths.  The random element id of the SVG markup is not modelled.   *)
(***************************************************************************)
EXTENDS Integers, Sequences, FiniteSets, TLC

VARIABLES
    COLAB,        \* environment.COLAB, fixed when the module is imported
    JUPYTERLAB,   \* environment.JUPYTERLAB, fixed when the module is imported
    pc,           \* where the running call is
    args,         \* the arguments of the running call
    mode,         \* display(): the resolved mode
    warnings,     \* messages given to logging.warning during the call
    error,        \* the exception that ended the call, "" when none
    has_ipython,  \* display_ipython(): what "IPython" in sys.modules gave
    svg,          \* calls to vp.write_svg and IPython.display.display_html
    canvas,       \* calls made on the pyplot canvas during the call
    scale,        \* display_matplotlib(): scale, as the divisor 1/scale
    offset,       \* display_matplotlib(): offset, in half units
    color_idx,    \* display_matplotlib(): color_idx
    layer_i,      \* display_matplotlib(): position of the loop over the layers
    collections,  \* display_matplotlib(): collections, one entry per layer drawn
    axes          \* the axes' visibility, labels and grid on the canvas

vars == <<COLAB, JUPYTERLAB, pc, args, mode, warnings, error, has_ipython, svg,
          canvas, scale, offset, color_idx, layer_i, collections, axes>>

-----------------------------------------------------------------------------
(* Bounds of the input space *)

MaxLayers == 9

MaxPaths == 3

-----------------------------------------------------------------------------
(* Values *)

None == <<>>

Some(v) == <<v>>

IsNone(o) == Len(o) = 0

Val(o) == o[1]

COLORS ==
    << <<0, 0, 100>>,
       <<0, 50, 0>>,
       <<100, 0, 0>>,
       <<0, 75, 75>>,
       <<0, 100, 0>>,
       <<75, 0, 75>>,
       <<75, 75, 0>>,
       <<0, 0, 0>> >>

PEN_UP_COLOR == <<0, 0, 0>>

MARGIN == 10

Max(a, b) == IF a >= b THEN a ELSE b

-----------------------------------------------------------------------------
(* Documents: a sequence of layers in insertion order (layer ids 1, 2, ...), *)
(* a layer a sequence of paths, a path a non-empty sequence of points.       *)

PathPool ==
    << << <<0, 0>>, <<1, 1>> >>,
       << <<2, 2>>, <<3, 3>> >>,
       << <<-1, 4>> >>,
       << <<5, -2>>, <<0, 3>>, <<1, 0>> >> >>

\* The layer of k paths that starts at pool position s.
MkLayer(k, s) == [j \in 1..k |-> PathPool[((j + s - 1) % Len(PathPool)) + 1]]

\* Path counts of the short documents: every shape of at most two layers.
ShortShapes ==
    {<<>>} \cup {<<a>> : a \in 0..MaxPaths}
           \cup {<<a, b>> : a \in {0, 1, MaxPaths}, b \in {0, MaxPaths}}

\* Path counts of the long documents: periodic shapes of 3..MaxLayers layers.
LongShapes ==
    {[k \in 1..n |-> (k * a + b) % (MaxPaths + 1)] :
        n \in 3..MaxLayers, a \in {0, 1}, b \in {1}}

Documents ==
    {[k \in 1..Len(sh) |-> MkLayer(sh[k], k)] : sh \in ShortShapes \cup LongShapes}

PageSizes == {None, Some(<<7, 4>>)}

FigSizes == {None, Some(<<6, 4>>)}

ColorModes == {"none", "layer", "path"}

Units == {"px", "in", "furlong"}

Modes == {None, Some("ipython"), Some("matplotlib"), Some("plotly")}

-----------------------------------------------------------------------------
(* Collaborators *)

KnownUnits == {"px", "in"}

\* Mutant: no unit is refused.
UnitKnownAny(unit) == TRUE

\* vp.convert_length(unit): pixels per unit; raises for a unit it does not know.
UnitKnown(unit) == unit \in KnownUnits

convert_length(unit) == IF unit = "px" THEN 1 ELSE 96

\* All points of a document.
Points(document) ==
    UNION {UNION {{document[l][p][i] : i \in 1..Len(document[l][p])} :
                    p \in 1..Len(document[l])} :
            l \in 1..Len(document)}

SetMin(S) == CHOOSE m \in S : \A x \in S : m <= x

SetMax(S) == CHOOSE m \in S : \A x \in S : m >= x

\* document.bounds(): (min x, min y, max x, max y), None without any point.
bounds(document) ==
    LET P == Points(document)
        X == {p[1] : p \in P}
        Y == {p[2] : p \in P}
    IN  IF P = {} THEN None
        ELSE Some(<<SetMin(X), SetMin(Y), SetMax(X), SetMax(Y)>>)

-----------------------------------------------------------------------------
(* display_matplotlib: geometry *)

\* Mutant: the bounds' minimum is not subtracted.
ComputeOffsetNoMin(document, page_size, center) ==
    IF center /\ ~IsNone(page_size)
    THEN LET b == bounds(document)
         IN  IF ~IsNone(b)
             THEN <<Val(page_size)[1] - (Val(b)[3] - Val(b)[1]),
                    Val(page_size)[2] - (Val(b)[4] - Val(b)[2])>>
             ELSE <<0, 0>>
    ELSE <<0, 0>>

\* complex(...) of lines 63-70, in half units.
ComputeOffset(document, page_size, center) ==
    IF center /\ ~IsNone(page_size)
    THEN LET b == bounds(document)
         IN  IF ~IsNone(b)
             THEN <<(Val(page_size)[1] - (Val(b)[3] - Val(b)[1])) - 2 * Val(b)[1],
                    (Val(page_size)[2] - (Val(b)[4] - Val(b)[2])) - 2 * Val(b)[2]>>
             ELSE <<0, 0>>
    ELSE <<0, 0>>

\* (point + offset) * scale as the fraction num/den on each axis.
Transform(pt, off, div) ==
    [x |-> 2 * pt[1] + off[1], y |-> 2 * pt[2] + off[2], den |-> 2 * div]

\* vp.as_vector(line + offset) * scale for line in lc
StrokeLines(lc, off, div) ==
    [p \in 1..Len(lc) |-> [i \in 1..Len(lc[p]) |-> Transform(lc[p][i], off, div)]]

\* Mutant: the pen-up endpoints are scaled but not moved by the offset.
PenUpLinesNoOffset(lc, off, div) ==
    [i \in 1..Max(0, Len(lc) - 1) |->
        << Transform(lc[i][Len(lc[i])], <<0, 0>>, div),
           Transform(lc[i + 1][1], <<0, 0>>, div) >>]

\* The generator of lines 102-108.
PenUpLines(lc, off, div) ==
    [i \in 1..Max(0, Len(lc) - 1) |->
        << Transform(lc[i][Len(lc[i])], off, div),
           Transform(lc[i + 1][1], off, div) >>]

-----------------------------------------------------------------------------
(* display_matplotlib: colors *)

\* COLORS[color_idx:] + COLORS[:color_idx]
Rotate(idx) == [j \in 1..Len(COLORS) |-> COLORS[((idx + j - 1) % Len(COLORS)) + 1]]

\* The color argument of the layer's LineCollection (lines 77-84).
LayerColor(colorful, idx) ==
    IF colorful THEN [list |-> TRUE, colors |-> Rotate(idx)]
    ELSE [list |-> FALSE, colors |-> <<COLORS[idx + 1]>>]

\* Mutant: the cursor advances by the layer's path count in every color mode.
NextColorIdxByPaths(colorful, idx, n) ==
    LET raw == idx + n
    IN  IF raw >= Len(COLORS) THEN raw % Len(COLORS) ELSE raw

\* Mutant: the cursor advances by one per layer in every color mode.
NextColorIdxByLayers(colorful, idx, n) ==
    LET raw == idx + 1
    IN  IF raw >= Len(COLORS) THEN raw % Len(COLORS) ELSE raw

\* color_idx after the layer (lines 81, 84-86).
NextColorIdx(colorful, idx, n) ==
    LET raw == IF colorful THEN idx + n ELSE idx + 1
    IN  IF raw >= Len(COLORS) THEN raw % Len(COLORS) ELSE raw

\* The color a LineCollection draws its j-th line with (j from 0): a collection
\* cycles through the colors it was given.
LineColor(color, j) == color.colors[(j % Len(color.colors)) + 1]

-----------------------------------------------------------------------------
(* display: dispatch *)

\* Mutant: a notebook-hosted environment wins over the mode given.
ResolveModeEnvFirst(m, colab, jupyterlab) ==
    IF colab \/ jupyterlab THEN "ipython"
    ELSE IF IsNone(m) THEN "matplotlib" ELSE Val(m)

\* Lines 245-249.
ResolveMode(m, colab, jupyterlab) ==
    IF IsNone(m)
    THEN IF colab \/ jupyterlab THEN "ipython" ELSE "matplotlib"
    ELSE Val(m)

\* Mutant: the four tests are chained, so that only the first that holds warns.
IPythonWarningsChained(a) ==
    IF a.show_axes
    THEN <<"show_axis is not supported by the IPython display mode">>
    ELSE IF a.show_grid
    THEN <<"show_grid is not supported by the IPython display mode">>
    ELSE IF a.unit # "px"
    THEN <<"custom units are not supported by the IPython display mode">>
    ELSE IF ~IsNone(a.fig_size)
    THEN <<"setting fig_size is not supported by the IPython display mode">>
    ELSE <<>>

\* Lines 252-262.
IPythonWarnings(a) ==
    (IF a.show_axes
        THEN <<"show_axis is not supported by the IPython display mode">> ELSE <<>>)
    \o (IF a.show_grid
        THEN <<"show_grid is not supported by the IPython display mode">> ELSE <<>>)
    \o (IF a.unit # "px"
        THEN <<"custom units are not supported by the IPython display mode">> ELSE <<>>)
    \o (IF ~IsNone(a.fig_size)
        THEN <<"setting fig_size is not supported by the IPython display mode">>
        ELSE <<>>)

\* What display_ipython receives from display (lines 264-266).
IPythonArgs(a) ==
    [document |-> a.document, page_size |-> a.page_size, center |-> a.center,
     show_pen_up |-> a.show_pen_up, color_mode |-> a.color_mode]

\* The colorful argument of display_matplotlib (line 275).
Colorful(color_mode) == color_mode = "path"

-----------------------------------------------------------------------------
(* State *)

NoArgs ==
    [entry |-> "", document |-> <<>>, page_size |-> None, center |-> FALSE,
     show_axes |-> FALSE, show_grid |-> FALSE, show_pen_up |-> FALSE,
     color_mode |-> "", unit |-> "", mode |-> None, fig_size |-> None]

NoAxes == [axis |-> "", xlabel |-> "", ylabel |-> "", grid |-> FALSE]

Init ==
    /\ COLAB \in BOOLEAN
    /\ JUPYTERLAB \in BOOLEAN
    /\ pc = "idle"
    /\ args = NoArgs
    /\ mode = ""
    /\ warnings = <<>>
    /\ error = ""
    /\ has_ipython = FALSE
    /\ svg = <<>>
    /\ canvas = <<>>
    /\ scale = 0
    /\ offset = <<0, 0>>
    /\ color_idx = 0
    /\ layer_i = 0
    /\ collections = <<>>
    /\ axes = NoAxes

locals == <<scale, offset, color_idx, layer_i, collections>>

\* display(...), lines 245-280, up to the call of the renderer.
Display ==
    /\ pc = "idle"
    /\ \E document \in Documents, page_size \in PageSizes, center \in BOOLEAN,
          show_axes \in BOOLEAN, show_grid \in BOOLEAN, show_pen_up \in BOOLEAN,
          color_mode \in ColorModes, unit \in Units, m \in Modes,
          fig_size \in FigSizes :
        LET a == [entry |-> "display", document |-> document,
                  page_size |-> page_size, center |-> center,
                  show_axes |-> show_axes, show_grid |-> show_grid,
                  show_pen_up |-> show_pen_up, color_mode |-> color_mode,
                  unit |-> unit, mode |-> m, fig_size |-> fig_size]
            r == ResolveMode(m, COLAB, JUPYTERLAB)
        IN  /\ args' = a
            /\ mode' = r
            /\ IF r = "ipython"
               THEN /\ warnings' = IPythonWarnings(a)
                    /\ pc' = "display_ipython"
                    /\ error' = ""
               ELSE IF r = "matplotlib"
               THEN /\ warnings' = <<>>
                    /\ pc' = "display_matplotlib"
                    /\ error' = ""
               ELSE /\ warnings' = <<>>
                    /\ pc' = "done"
                    /\ error' = "ValueError: unsupported display mode"
    /\ UNCHANGED <<COLAB, JUPYTERLAB, has_ipython, svg, canvas, locals, axes>>

\* display_ipython(...) called by the user, not through display().
CallDisplayIpython ==
    /\ pc = "idle"
    /\ \E document \in Documents, page_size \in PageSizes, center \in BOOLEAN,
          show_pen_up \in BOOLEAN, color_mode \in ColorModes :
        args' = [NoArgs EXCEPT !.entry = "display_ipython",
                               !.document = document, !.page_size = page_size,
                               !.center = center, !.show_pen_up = show_pen_up,
                               !.color_mode = color_mode]
    /\ pc' = "display_ipython"
    /\ UNCHANGED <<COLAB, JUPYTERLAB, mode, warnings, error, has_ipython, svg,
                   canvas, locals, axes>>

\* The size of the SVG (lines 159-169).
SvgSize(document, page_size) ==
    IF IsNone(page_size)
    THEN LET b == bounds(document)
         IN  IF ~IsNone(b) THEN <<Val(b)[3] - Val(b)[1], Val(b)[4] - Val(b)[2]>>
             ELSE <<0, 0>>
    ELSE Val(page_size)

\* vp.write_svg(svg_io, document, page_size or (0, 0), center, ...), lines 148-155.
WriteSvgCall(a) ==
    [op |-> "write_svg",
     document |-> a.document,
     page_size |-> IF ~IsNone(a.page_size) THEN Val(a.page_size) ELSE <<0, 0>>,
     center |-> a.center,
     show_pen_up |-> a.show_pen_up,
     color_mode |-> a.color_mode]

\* IPython.display.display_html(...), lines 157-207: the size of the <svg>
\* element and whether the page boundaries are drawn.
DisplayHtmlCall(a) ==
    LET size == SvgSize(a.document, a.page_size)
        svg_margin == IF ~IsNone(a.page_size) THEN MARGIN ELSE 0
    IN  [op |-> "display_html",
         width |-> size[1] + svg_margin,
         height |-> size[2] + svg_margin,
         page_boundaries |-> ~IsNone(a.page_size)]

\* Mutant: IPython is looked for after the SVG was written.
IPythonResultLateCheck(a, present) ==
    IF ~present
    THEN [error |-> "RuntimeError: IPython display cannot be used outside of IPython",
          svg |-> <<WriteSvgCall(a)>>]
    ELSE [error |-> "", svg |-> <<WriteSvgCall(a), DisplayHtmlCall(a)>>]

\* display_ipython(...), lines 144-207, with "IPython" in sys.modules = present:
\* the exception raised ("" when none) and the calls made on the way.
IPythonResult(a, present) ==
    IF ~present
    THEN [error |-> "RuntimeError: IPython display cannot be used outside of IPython",
          svg |-> <<>>]
    ELSE [error |-> "", svg |-> <<WriteSvgCall(a), DisplayHtmlCall(a)>>]

\* display_ipython(...) runs.
DisplayIpython ==
    /\ pc = "display_ipython"
    /\ \E present \in BOOLEAN :
        /\ has_ipython' = present
        /\ error' = IPythonResult(IPythonArgs(args), present).error
        /\ svg' = IPythonResult(IPythonArgs(args), present).svg
    /\ pc' = "done"
    /\ UNCHANGED <<COLAB, JUPYTERLAB, args, mode, warnings, canvas, locals, axes>>

Op(name) == [op |-> name]

\* The page's shadow and outline, lines 51-60: w, h and dw as fractions num/den.
PageCalls(page_size, div) ==
    << [op |-> "fill", w |-> <<page_size[1], div>>, h |-> <<page_size[2], div>>,
        dw |-> <<10, div>>],
       [op |-> "plot", w |-> <<page_size[1], div>>, h |-> <<page_size[2], div>>] >>

\* display_matplotlib(...), lines 43-75: scale, figure, page, offset.
MatplotlibBegin ==
    /\ pc = "display_matplotlib"
    /\ IF ~UnitKnown(args.unit)
       THEN /\ error' = "ValueError: convert_length"
            /\ pc' = "done"
            /\ UNCHANGED <<canvas, locals>>
       ELSE /\ error' = ""
            /\ pc' = "layers"
            /\ scale' = convert_length(args.unit)
            /\ canvas' = (IF ~IsNone(args.fig_size)
                             THEN <<[op |-> "figure", figsize |-> Val(args.fig_size)]>>
                             ELSE <<>>)
                         \o <<Op("cla")>>
                         \o (IF ~IsNone(args.page_size)
                             THEN PageCalls(Val(args.page_size), convert_length(args.unit))
                             ELSE <<>>)
            /\ offset' = ComputeOffset(args.document, args.page_size, args.center)
            /\ color_idx' = 0
            /\ collections' = <<>>
            /\ layer_i' = 1
    /\ UNCHANGED <<COLAB, JUPYTERLAB, args, mode, warnings, has_ipython, svg, axes>>

\* One iteration of the loop over the layers, lines 76-114.
PlotLayer ==
    /\ pc = "layers"
    /\ layer_i <= Len(args.document)
    /\ LET lc == args.document[layer_i]
           colorful == Colorful(args.color_mode)
           layer_lines == [color |-> LayerColor(colorful, color_idx),
                           label |-> layer_i,
                           lines |-> StrokeLines(lc, offset, scale)]
           pen_up_lines == [color |-> [list |-> FALSE, colors |-> <<PEN_UP_COLOR>>],
                            label |-> 0,
                            lines |-> PenUpLines(lc, offset, scale)]
       IN  /\ color_idx' = NextColorIdx(colorful, color_idx, Len(lc))
           /\ collections' = Append(collections,
                                    IF args.show_pen_up
                                    THEN <<layer_lines, pen_up_lines>>
                                    ELSE <<layer_lines>>)
           /\ canvas' = canvas \o (IF args.show_pen_up
                                   THEN <<Op("add_collection"), Op("add_collection")>>
                                   ELSE <<Op("add_collection")>>)
    /\ layer_i' = layer_i + 1
    /\ UNCHANGED <<COLAB, JUPYTERLAB, pc, args, mode, warnings, error, has_ipython,
                   svg, scale, offset, axes>>

\* "[unit]"
UnitLabel(unit) == "[" \o unit \o "]"

\* Mutant: the axes follow show_axes alone.
AxesForAxesOnly(show_axes, show_grid, unit) ==
    [axis |-> IF show_axes THEN "on" ELSE "off",
     xlabel |-> IF show_axes THEN "[" \o unit \o "]" ELSE "",
     ylabel |-> IF show_axes THEN "[" \o unit \o "]" ELSE "",
     grid |-> show_grid]

\* Lines 120-127.
AxesFor(show_axes, show_grid, unit) ==
    [axis |-> IF show_axes \/ show_grid THEN "on" ELSE "off",
     xlabel |-> IF show_axes \/ show_grid THEN UnitLabel(unit) ELSE "",
     ylabel |-> IF show_axes \/ show_grid THEN UnitLabel(unit) ELSE "",
     grid |-> show_grid]

\* display_matplotlib(...), lines 116-129, after the last layer.
MatplotlibFinish ==
    /\ pc = "layers"
    /\ layer_i > Len(args.document)
    /\ axes' = AxesFor(args.show_axes, args.show_grid, args.unit)
    /\ canvas' = canvas \o <<Op("invert_yaxis"), Op("axis_equal"), Op("margins")>>
                        \o (IF args.show_axes \/ args.show_grid
                            THEN <<Op("axis_on"), Op("xlabel"), Op("ylabel")>>
                            ELSE <<Op("axis_off")>>)
                        \o (IF args.show_grid THEN <<Op("grid_on")>> ELSE <<>>)
                        \o <<Op("show")>>
    /\ pc' = "done"
    /\ UNCHANGED <<COLAB, JUPYTERLAB, args, mode, warnings, error, has_ipython, svg,
                   locals>>

\* The call returns (or raises) to the caller; nothing of it is kept.
Return ==
    /\ pc = "done"
    /\ pc' = "idle"
    /\ args' = NoArgs
    /\ mode' = ""
    /\ warnings' = <<>>
    /\ error' = ""
    /\ has_ipython' = FALSE
    /\ svg' = <<>>
    /\ canvas' = <<>>
    /\ scale' = 0
    /\ offset' = <<0, 0>>
    /\ color_idx' = 0
    /\ layer_i' = 0
    /\ collections' = <<>>
    /\ axes' = NoAxes
    /\ UNCHANGED <<COLAB, JUPYTERLAB>>

Next ==
    \/ Display
    \/ CallDisplayIpython
    \/ DisplayIpython
    \/ MatplotlibBegin
    \/ PlotLayer
    \/ MatplotlibFinish
    \/ Return

Spec == Init /\ [][Next]_vars

-----------------------------------------------------------------------------
(* Properties *)

\* display_matplotlib has computed its scale and offset and is drawing, or has
\* finished drawing.
RasterRan == mode = "matplotlib" /\ (pc = "layers" \/ (pc = "done" /\ error = ""))

\* display_matplotlib has returned normally.
RasterDone == mode = "matplotlib" /\ pc = "done" /\ error = ""

\* The call went through display() and was handed to display_ipython.
VectorRouted == args.entry = "display" /\ mode = "ipython"

\* display_ipython has run, called directly or through display().
VectorDone ==
    /\ pc = "done"
    /\ \/ args.entry = "display_ipython"
       \/ VectorRouted

Count(b) == IF b THEN 1 ELSE 0

RECURSIVE PathsBefore(_, _)
\* The number of paths in the layers before layer k of the document.
PathsBefore(document, k) ==
    IF k <= 1 THEN 0 ELSE PathsBefore(document, k - 1) + Len(document[k - 1])

\* The layer's LineCollection and its pen-up LineCollection, when drawn.
LayerLines(k) == collections[k][1]

PenUp(k) == collections[k][2]

\* C1: in color mode "layer" the raster renderer draws the k-th layer of the
\* document (k from 0), whatever its number of paths, in palette color k mod 8,
\* on every call: the cursor is 0 when the first layer is reached and k mod 8
\* when layer k is.
C1_LayerModeColors ==
    (RasterRan /\ args.color_mode = "layer") =>
        /\ color_idx = (layer_i - 1) % 8
        /\ Len(collections) = layer_i - 1
        /\ \A k \in 1..Len(collections) :
            /\ LayerLines(k).color = [list |-> FALSE, colors |-> <<COLORS[((k - 1) % 8) + 1]>>]
            /\ \A j \in 0..(Len(args.document[k]) - 1) :
                LineColor(LayerLines(k).color, j) = COLORS[((k - 1) % 8) + 1]

\* A ninth layer has been drawn in color mode "layer", after a layer without
\* paths.
C1_Witness ==
    /\ RasterDone
    /\ args.color_mode = "layer"
    /\ Len(collections) > 8
    /\ \E k \in 1..8 : Len(args.document[k]) = 0
    /\ LayerLines(9).color.colors = <<COLORS[1]>>

\* C2: in color mode "none" the raster renderer draws every path of every layer
\* in one single color and never advances the palette cursor.
C2_NoneModeOneColor ==
    (RasterRan /\ args.color_mode = "none") =>
        /\ color_idx = 0
        /\ \A k1, k2 \in 1..Len(collections) :
            LayerLines(k1).color = LayerLines(k2).color

\* C3: after the raster renderer computed its offset: with center set, a page
\* size given and bounds defined, boundsCenter + offset = pageCenter on both
\* axes (here doubled, the offset being in half units), which is
\* offset = (page - boundsSize)/2 - boundsMin; otherwise the offset is (0, 0).
C3_Offset ==
    RasterRan =>
        LET b == bounds(args.document)
        IN  IF args.center /\ ~IsNone(args.page_size) /\ ~IsNone(b)
            THEN /\ (Val(b)[1] + Val(b)[3]) + offset[1] = Val(args.page_size)[1]
                 /\ (Val(b)[2] + Val(b)[4]) + offset[2] = Val(args.page_size)[2]
            ELSE offset = <<0, 0>>

\* A centred drawing whose bounds do not start at the origin and whose offset
\* is not a whole number on the x axis.
C3_Witness ==
    /\ RasterRan
    /\ args.center
    /\ ~IsNone(args.page_size)
    /\ ~IsNone(bounds(args.document))
    /\ Val(bounds(args.document))[1] # 0
    /\ offset[1] % 2 = 1
    /\ offset[2] # 0

\* The exception vp.convert_length raises for a unit it does not know.
UnitError == "ValueError: convert_length"

\* C4 as stated: a display call with an unknown unit that a renderer handles
\* ends with the unit error, whichever renderer it is, with nothing drawn and
\* no markup built.
C4_UnknownUnitAlwaysFails ==
    (pc = "done" /\ args.entry = "display" /\ mode \in {"ipython", "matplotlib"}
        /\ args.unit \notin KnownUnits) =>
        /\ error = UnitError
        /\ canvas = <<>>
        /\ svg = <<>>

\* C4 amended: a display call with an unknown unit handled by the raster
\* renderer ends with the unit error with nothing drawn on the canvas; handled
\* by the vector renderer it never ends with the unit error: the custom-units
\* warning is given and display_ipython runs.
C4_UnknownUnitRaster ==
    (pc = "done" /\ args.entry = "display" /\ args.unit \notin KnownUnits) =>
        /\ mode = "matplotlib" => (error = UnitError /\ canvas = <<>> /\ svg = <<>>)
        /\ mode = "ipython" =>
            /\ error # UnitError
            /\ \E i \in 1..Len(warnings) :
                warnings[i] = "custom units are not supported by the IPython display mode"
            /\ has_ipython => Len(svg) = 2

\* The raster renderer ended a call with an unknown unit.
C4_Witness ==
    /\ pc = "done"
    /\ mode = "matplotlib"
    /\ args.unit = "furlong"
    /\ error = UnitError
    /\ ~IsNone(args.fig_size)
    /\ ~IsNone(args.page_size)

\* C5: a display call given to the vector renderer has emitted one warning for
\* each of show_axes, show_grid, a unit other than px and a fig_size, in this
\* order and nothing else, without raising; display_ipython is then invoked, and
\* what it hands on holds none of the four options.
C5_VectorWarnings ==
    (VectorRouted /\ pc # "idle") =>
        /\ Len(warnings) = Count(args.show_axes) + Count(args.show_grid)
                           + Count(args.unit # "px") + Count(~IsNone(args.fig_size))
        /\ \A i, j \in 1..Len(warnings) : i # j => warnings[i] # warnings[j]
        /\ pc \in {"display_ipython", "done"}
        /\ pc = "display_ipython" => error = ""
        /\ (pc = "done" /\ has_ipython) =>
            /\ error = ""
            /\ DOMAIN svg[1] = {"op", "document", "page_size", "center",
                                "show_pen_up", "color_mode"}
            /\ svg[1].document = args.document
            /\ svg[1].center = args.center
            /\ svg[1].show_pen_up = args.show_pen_up
            /\ svg[1].color_mode = args.color_mode

\* The vector renderer ran after exactly one warning, for show_axes.
C5_Witness ==
    /\ VectorRouted
    /\ pc = "done"
    /\ has_ipython
    /\ args.show_axes /\ ~args.show_grid /\ args.unit = "px" /\ IsNone(args.fig_size)
    /\ warnings = <<"show_axis is not supported by the IPython display mode">>
    /\ Len(svg) = 2

\* C6: display() hands the call to one renderer: with mode unset the vector
\* renderer when COLAB or JUPYTERLAB and the raster renderer otherwise, with
\* mode "ipython" or "matplotlib" that renderer whatever the environment; any
\* other mode ends with the unsupported-mode error, no renderer invoked and no
\* warning.  A call that succeeds has used exactly one of the two sinks.
C6_Dispatch ==
    (args.entry = "display") =>
        /\ IsNone(args.mode) =>
            /\ (COLAB \/ JUPYTERLAB) => (mode = "ipython" /\ canvas = <<>>)
            /\ ~(COLAB \/ JUPYTERLAB) => (mode = "matplotlib" /\ svg = <<>>)
        /\ args.mode = Some("ipython") =>
            (mode = "ipython" /\ pc \in {"display_ipython", "done"} /\ canvas = <<>>)
        /\ args.mode = Some("matplotlib") =>
            (mode = "matplotlib" /\ pc \in {"display_matplotlib", "layers", "done"}
                /\ svg = <<>> /\ warnings = <<>>)
        /\ (args.mode \notin {None, Some("ipython"), Some("matplotlib")}) =>
            /\ pc = "done"
            /\ error = "ValueError: unsupported display mode"
            /\ canvas = <<>> /\ svg = <<>> /\ warnings = <<>>
        /\ pc \in {"display_ipython", "display_matplotlib", "layers"} =>
            mode = (IF pc = "display_ipython" THEN "ipython" ELSE "matplotlib")
        /\ (pc = "done" /\ error = "") => ((svg = <<>>) # (canvas = <<>>))

\* With mode unset in a notebook-hosted environment the vector renderer ran and
\* the canvas was left alone.
C6_Witness ==
    /\ args.entry = "display"
    /\ IsNone(args.mode)
    /\ JUPYTERLAB /\ ~COLAB
    /\ pc = "done"
    /\ error = ""
    /\ Len(svg) = 2
    /\ canvas = <<>>

\* C7: when display_ipython ran, called directly or through display() with the
\* mode given or inferred, and IPython was not in sys.modules, the call ended
\* with the RuntimeError and neither vp.write_svg nor display_html was called.
C7_NoIPython ==
    (VectorDone /\ ~has_ipython) =>
        /\ error = "RuntimeError: IPython display cannot be used outside of IPython"
        /\ svg = <<>>

\* display_ipython, reached with the mode inferred, failed without IPython.
C7_Witness ==
    /\ VectorDone
    /\ args.entry = "display"
    /\ IsNone(args.mode)
    /\ ~has_ipython
    /\ error # ""
    /\ Len(args.document) > 0

\* C8: with show_pen_up every drawn layer of K paths has max(0, K-1) pen-up
\* segments, the i-th from the last point of path i to the first point of path
\* i+1, each endpoint being (point + offset) * scale, the very point the stroke
\* collection of the layer holds; without show_pen_up no pen-up collection is
\* made.
C8_PenUp ==
    RasterRan =>
        \A k \in 1..Len(collections) :
            LET lc == args.document[k]
                K == Len(lc)
            IN  IF args.show_pen_up
                THEN /\ Len(collections[k]) = 2
                     /\ Len(PenUp(k).lines) = (IF K >= 1 THEN K - 1 ELSE 0)
                     /\ \A i \in 1..Len(PenUp(k).lines) :
                         LET seg == PenUp(k).lines[i]
                             a == lc[i][Len(lc[i])]
                             b == lc[i + 1][1]
                         IN  /\ Len(seg) = 2
                             /\ seg[1] = LayerLines(k).lines[i][Len(lc[i])]
                             /\ seg[2] = LayerLines(k).lines[i + 1][1]
                             /\ seg[1].x = 2 * a[1] + offset[1]
                             /\ seg[1].y = 2 * a[2] + offset[2]
                             /\ seg[2].x = 2 * b[1] + offset[1]
                             /\ seg[2].y = 2 * b[2] + offset[2]
                             /\ seg[1].den = 2 * convert_length(args.unit)
                             /\ seg[2].den = 2 * convert_length(args.unit)
                ELSE Len(collections[k]) = 1

\* A layer of three paths was drawn with its two pen-up segments, with an
\* offset and a scale other than 1.
C8_Witness ==
    /\ RasterDone
    /\ args.show_pen_up
    /\ offset # <<0, 0>>
    /\ args.unit = "in"
    /\ \E k \in 1..Len(collections) :
        /\ Len(args.document[k]) = 3
        /\ Len(PenUp(k).lines) = 2
    /\ \E k \in 1..Len(collections) : Len(PenUp(k).lines) = 0

\* C9: in color mode "path" layer k is handed the whole palette rotated to the
\* number of paths in the layers before it (mod 8), so that the rotation depends
\* on that count alone, the cursor is the number of paths drawn so far (mod 8),
\* and the path of global index n is drawn in palette color n mod 8.
C9_PathModeColors ==
    (RasterRan /\ args.color_mode = "path") =>
        /\ color_idx = PathsBefore(args.document, layer_i) % 8
        /\ \A k \in 1..Len(collections) :
            LET before == PathsBefore(args.document, k)
            IN  /\ LayerLines(k).color.list
                /\ Len(LayerLines(k).color.colors) = 8
                /\ \A j \in 1..8 :
                    LayerLines(k).color.colors[j] = COLORS[((before + j - 1) % 8) + 1]
                /\ \A j \in 0..(Len(args.document[k]) - 1) :
                    LineColor(LayerLines(k).color, j) = COLORS[((before + j) % 8) + 1]

\* More than eight paths were drawn in color mode "path": a layer started on a
\* wrapped cursor.
C9_Witness ==
    /\ RasterDone
    /\ args.color_mode = "path"
    /\ \E k \in 1..Len(collections) :
        /\ PathsBefore(args.document, k) > 8
        /\ PathsBefore(args.document, k) % 8 # 0
        /\ Len(args.document[k]) > 1
        /\ LayerLines(k).color.colors[1] = COLORS[(PathsBefore(args.document, k) % 8) + 1]

\* The calls made on the canvas hold the call named op.
Called(op) == \E i \in 1..Len(canvas) : canvas[i].op = op

\* C10: when the raster renderer is done the axes are on, with both labels the
\* unit in brackets, exactly when show_axes or show_grid is set, and off
\* otherwise; the grid is on exactly when show_grid is set, so never with the
\* axes off.
C10_AxesAndGrid ==
    RasterDone =>
        /\ (axes.axis = "on") <=> (args.show_axes \/ args.show_grid)
        /\ (axes.axis = "off") <=> (~args.show_axes /\ ~args.show_grid)
        /\ axes.axis = "on" =>
            (axes.xlabel = "[" \o args.unit \o "]" /\ axes.ylabel = axes.xlabel)
        /\ axes.grid <=> args.show_grid
        /\ axes.grid => axes.axis = "on"
        /\ Called("axis_on") <=> (args.show_axes \/ args.show_grid)
        /\ Called("axis_off") <=> ~Called("axis_on")
        /\ Called("grid_on") <=> args.show_grid
        /\ Called("xlabel") <=> Called("axis_on")

\* The grid was asked for without the axes: the axes are on, labelled in inches.
C10_Witness ==
    /\ RasterDone
    /\ args.show_grid
    /\ ~args.show_axes
    /\ axes.axis = "on"
    /\ axes.grid
    /\ axes.xlabel = "[in]"

====
